---- MODULE Spec2Model ----
(***************************************************************************)
(* The simulation core of AeroGame (src/unnamed/part_000): the per-frame   *)
(* update() of the plane, obstacle streaming and eviction, collision and   *)
(* goal-ring detection, and the Menu / Playing / Ended state machine with  *)
(* its UI handlers and asynchronous model loads.                          *)
(*                                                                         *)
(* Units.  The program computes in JavaScript numbers; the model uses      *)
(* exact fixed-point integers:                                             *)
(*   lengths, positions, speed, distance : 1 unit = 0.01 (so 5 is 500)     *)
(*   plane rotation (roll, pitch)        : 1 unit = 10^-9 rad              *)
(*   camera angle                        : 1 unit = 0.01 rad               *)
(* Spec and GameJsSpec do not model floating-point rounding; ThrottleSpec  *)
(* models the speed controls in exact double arithmetic.                   *)
(*                                                                         *)
(* src/game.js is a second variant of the same game; its state machine,    *)
(* GameJsSpec, follows Spec and shares the variables.  advanceTimers, the  *)
(* number of armed auto-advance timers, is used by game.js only.           *)
(***************************************************************************)
EXTENDS Integers, Sequences, FiniteSets, TLC

\* ---------------------------------------------------------------- bounds
\* Playing ticks explored in one run of the model.
MaxTicks == 2
\* Key-down / key-up events delivered in one run of the model.
MaxKeyEvents == 1
\* Tower-model loads that may be in flight at once.
MaxLoads == 1
\* Ticks of one throttle run counted from a reset.
MaxThrottleTicks == 50

\* ------------------------------------------------------- program constants
PILLAR_HEIGHT == 2000
PILLAR_WIDTH == 200
PILLAR_SPACING == 5000
INITIAL_SPEED == 50
MAX_SPEED == 500
MIN_SPEED == 10
LOCK_LEVEL == TRUE
\* LEVELS[n].distance
LevelDistances == <<300000, 600000, 900000, 1200000, 1500000>>
NumLevels == Len(LevelDistances)
\* LEVELS[n].unlocked as the script defines it
InitialUnlocked == <<TRUE, FALSE, FALSE, FALSE, FALSE>>

SPEED_STEP == 1
STEER_STEP == 30
ROT_STEP == 20000000
ROT_MAX == 300000000
ALT_STEP == 10
ALT_MIN == 100
ALT_MAX == 1500
CAMERA_STEP == 2
SCORE_PER_PILLAR == 10
SAFE_ZONE == 6000
GOAL_CLEARANCE == 10000
GEN_TRIGGER == 20000
GEN_AHEAD == 50000
EVICT_BEHIND == 10000
PLANE_HALF_WIDTH == 300
PLANE_HALF_HEIGHT == 50
PLANE_HALF_DEPTH == 100
BARRIER_X_LIMIT == 4200
GROUND_LIMIT == 50
RING_OFFSET == 5000
RING_Y == 800
RING_WINDOW == 200
RING_INNER == 600
RING_OUTER == 800
RING_PAST == 1000

Keys == {"w", "s", "a", "d", "arrowup", "arrowdown", "arrowright", "arrowleft", "c"}
\* the keys whose down / up events the model delivers; the flights in progress
\* start with the other keys held
EventKeys == {"c", "w", "d"}

\* Math.random(): the lateral offsets of one row of pillars, 1 to 3 of them in
\* [-40, 40).  One generation call draws one of these rows for all its rows.
RowPatterns == {<<1500>>, <<-400, 401, 3999>>}

VARIABLES
    gameStarted, gameOver, currentLevel, levelDistance, unlocked,
    speed, score, distance, planeRotation, planePosition, cameraAngle,
    firstPersonView, keys, pillars, barriers, goldenRing,
    planeLoaded, planeVisible, planeLoadPending, towerLoads,
    restartBtnText, startScreenHidden, gameOverHidden,
    lastOp, calls, ticks, keyEvents,
    advanceTimers

\* what update() and the handlers work on
simVars == <<gameStarted, gameOver, currentLevel, levelDistance, unlocked,
             speed, score, distance, planeRotation, planePosition, cameraAngle,
             firstPersonView, pillars, barriers, goldenRing,
             planeLoaded, planeVisible, planeLoadPending, towerLoads,
             restartBtnText, startScreenHidden, gameOverHidden>>
vars == <<simVars, keys, lastOp, calls, ticks, keyEvents, advanceTimers>>

Min(a, b) == IF a < b THEN a ELSE b
Max(a, b) == IF a > b THEN a ELSE b

\* ------------------------------------------------------- top-level state
Playing == gameStarted /\ ~gameOver
InMenu == ~gameStarted /\ ~gameOver
Ended == gameOver
LevelComplete == gameOver /\ restartBtnText = "Continue"
GameOverState == gameOver /\ restartBtnText # "Continue"

\* ---------------------------------------------------- kinematic controller
ThrottleUncapped(sp, ks) ==
    LET s1 == IF "w" \in ks THEN sp + SPEED_STEP ELSE sp
    IN  IF "s" \in ks THEN Max(s1 - SPEED_STEP, MIN_SPEED) ELSE s1

Throttle(sp, ks) ==
    LET s1 == IF "w" \in ks THEN Min(sp + SPEED_STEP, MAX_SPEED) ELSE sp
    IN  IF "s" \in ks THEN Max(s1 - SPEED_STEP, MIN_SPEED) ELSE s1

SteerX(x, ks) ==
    IF "d" \in ks THEN x - STEER_STEP
    ELSE IF "a" \in ks THEN x + STEER_STEP
    ELSE x

\* r * 0.9, exact while r is a multiple of 10 units (see RotExact)
Decay(r) == (r \div 10) * 9

RotExact(r) == r % 10 = 0

SteerRollUncapped(r, ks) ==
    IF "d" \in ks THEN r + ROT_STEP
    ELSE IF "a" \in ks THEN Max(r - ROT_STEP, -ROT_MAX)
    ELSE Decay(r)

SteerRoll(r, ks) ==
    IF "d" \in ks THEN Min(r + ROT_STEP, ROT_MAX)
    ELSE IF "a" \in ks THEN Max(r - ROT_STEP, -ROT_MAX)
    ELSE Decay(r)

PitchYUnfloored(y, ks) ==
    IF "arrowup" \in ks THEN y - ALT_STEP
    ELSE IF "arrowdown" \in ks THEN Min(y + ALT_STEP, ALT_MAX)
    ELSE y

PitchY(y, ks) ==
    IF "arrowup" \in ks THEN Max(y - ALT_STEP, ALT_MIN)
    ELSE IF "arrowdown" \in ks THEN Min(y + ALT_STEP, ALT_MAX)
    ELSE y

PitchRot(r, ks) ==
    IF "arrowup" \in ks THEN Min(r + ROT_STEP, ROT_MAX)
    ELSE IF "arrowdown" \in ks THEN Max(r - ROT_STEP, -ROT_MAX)
    ELSE Decay(r)

CameraStep(c, ks) ==
    IF "arrowright" \in ks THEN c + CAMERA_STEP
    ELSE IF "arrowleft" \in ks THEN c - CAMERA_STEP
    ELSE c

\* --------------------------------------------------- obstacle stream manager
Pillar(x, z) == [xPosition |-> x, zPosition |-> z, passed |-> FALSE]

\* number of rows z = first, first + PILLAR_SPACING, ... with z < limit
RowCount(first, limit) ==
    IF first >= limit THEN 0 ELSE ((limit - 1 - first) \div PILLAR_SPACING) + 1

\* the pillars one generation loop pushes: rows from `first` while z < limit,
\* each row holding the offsets of `pat`
GenerateRows(first, limit, pat) ==
    LET m == Len(pat)
        n == RowCount(first, limit)
    IN  [k \in 1..(n * m) |->
            Pillar(pat[((k - 1) % m) + 1], first + ((k - 1) \div m) * PILLAR_SPACING)]

generatePillarsToGoal(ps, ld, pat) == ps \o GenerateRows(SAFE_ZONE, ld, pat)

generatePillars(ps, ld, pat) == ps \o GenerateRows(SAFE_ZONE, ld - GOAL_CLEARANCE, pat)

\* the largest zPosition among ps[lo..hi], by halving
RECURSIVE MaxZ(_, _, _)
MaxZ(ps, lo, hi) ==
    IF lo = hi THEN ps[lo].zPosition
    ELSE LET mid == (lo + hi) \div 2
         IN  Max(MaxZ(ps, lo, mid), MaxZ(ps, mid + 1, hi))

\* pillars.reduce((max, p) => p.zPosition > max ? p.zPosition : max, 0)
furthestPillar(ps) == IF ps = <<>> THEN 0 ELSE Max(0, MaxZ(ps, 1, Len(ps)))

StreamPillarsAlways(ps, z, pat) ==
    ps \o GenerateRows(furthestPillar(ps) + PILLAR_SPACING, z + GEN_AHEAD, pat)

StreamPillars(ps, z, pat) ==
    LET f == furthestPillar(ps)
    IN  IF f < z + GEN_TRIGGER
        THEN ps \o GenerateRows(f + PILLAR_SPACING, z + GEN_AHEAD, pat)
        ELSE ps

Evicted(p, z) == p.zPosition < z - EVICT_BEHIND

EvictPillars(ps, z) == SelectSeq(ps, LAMBDA p : ~Evicted(p, z))

NewlyPassed(p, z) == ~p.passed /\ p.zPosition < z

MarkPassedNever(ps, z) == ps

MarkPassed(ps, z) ==
    [i \in 1..Len(ps) |-> IF NewlyPassed(ps[i], z) THEN [ps[i] EXCEPT !.passed = TRUE] ELSE ps[i]]

PassedNowAmongKept(ps, z) ==
    Cardinality({i \in 1..Len(ps) : NewlyPassed(ps[i], z) /\ ~Evicted(ps[i], z)})

PassedNow(ps, z) == Cardinality({i \in 1..Len(ps) : NewlyPassed(ps[i], z)})

\* ------------------------------------------------ collision and goal detector
Collides(p, x, y, z) ==
    LET collisionX == x + PLANE_HALF_WIDTH >= p.xPosition - PILLAR_WIDTH \div 2
                      /\ x - PLANE_HALF_WIDTH <= p.xPosition + PILLAR_WIDTH \div 2
        collisionY == y + PLANE_HALF_HEIGHT >= 0
                      /\ y - PLANE_HALF_HEIGHT <= PILLAR_HEIGHT
        collisionZ == z + PLANE_HALF_DEPTH >= p.zPosition - PILLAR_WIDTH \div 2
                      /\ z - PLANE_HALF_DEPTH <= p.zPosition + PILLAR_WIDTH \div 2
    IN  collisionX /\ collisionY /\ collisionZ

\* one endGame() call per overlapping pillar, in array order
PillarHits(ps, x, y, z) ==
    LET hit == SelectSeq(ps, LAMBDA p : Collides(p, x, y, z))
    IN  [i \in 1..Len(hit) |-> "endGame:pillar"]

ClampXLeftOnly(x) ==
    IF x - PLANE_HALF_WIDTH < -BARRIER_X_LIMIT THEN -BARRIER_X_LIMIT + PLANE_HALF_WIDTH
    ELSE x

ClampXWhenBarriers(x) ==
    IF barriers = {} THEN x
    ELSE IF x - PLANE_HALF_WIDTH < -BARRIER_X_LIMIT THEN -BARRIER_X_LIMIT + PLANE_HALF_WIDTH
    ELSE IF x + PLANE_HALF_WIDTH > BARRIER_X_LIMIT THEN BARRIER_X_LIMIT - PLANE_HALF_WIDTH
    ELSE x

ClampX(x) ==
    IF x - PLANE_HALF_WIDTH < -BARRIER_X_LIMIT THEN -BARRIER_X_LIMIT + PLANE_HALF_WIDTH
    ELSE IF x + PLANE_HALF_WIDTH > BARRIER_X_LIMIT THEN BARRIER_X_LIMIT - PLANE_HALF_WIDTH
    ELSE x

GroundHit(y) == IF y < GROUND_LIMIT THEN <<"endGame:ground">> ELSE <<>>

\* squared distance from the ring centre, x and y only
RingDist2(ring, x, y) == (x - ring.x) * (x - ring.x) + (y - ring.y) * (y - ring.y)

InRingWindow(ring, z) ==
    z >= ring.zPosition - RING_WINDOW /\ z <= ring.zPosition + RING_WINDOW

RingArrivalStrictInner(rings, x, y, z) ==
    IF rings # <<>> /\ InRingWindow(rings[1], z)
    THEN LET d2 == RingDist2(rings[1], x, y)
         IN  IF d2 < RING_INNER * RING_INNER THEN <<"completeLevel">>
             ELSE IF d2 > RING_INNER * RING_INNER /\ d2 < RING_OUTER * RING_OUTER
                  THEN <<"endGame:outerRing">>
                  ELSE <<>>
    ELSE <<>>

RingArrival(rings, x, y, z) ==
    IF rings # <<>> /\ InRingWindow(rings[1], z)
    THEN LET d2 == RingDist2(rings[1], x, y)
         IN  IF d2 <= RING_INNER * RING_INNER THEN <<"completeLevel">>
             ELSE IF d2 > RING_INNER * RING_INNER /\ d2 < RING_OUTER * RING_OUTER
                  THEN <<"endGame:outerRing">>
                  ELSE <<>>
    ELSE <<>>

FlewPastAtWindowEdge(rings, z) ==
    IF rings # <<>> /\ z > rings[1].zPosition + RING_WINDOW
    THEN <<"endGame:flewPast">>
    ELSE <<>>

FlewPast(rings, z) ==
    IF rings # <<>> /\ z > rings[1].zPosition + RING_PAST
    THEN <<"endGame:flewPast">>
    ELSE <<>>

createGoldenRing(ld) == <<[x |-> 0, y |-> RING_Y, zPosition |-> ld - RING_OFFSET]>>

createBarriers == {-BARRIER_X_LIMIT, BARRIER_X_LIMIT}

\* ------------------------------------------------------ level state machine
\* the text endGame() / completeLevel() leave on the restart button
BtnAfter(cs, old) ==
    IF cs = <<>> THEN old
    ELSE IF cs[Len(cs)] = "completeLevel" THEN "Continue" ELSE "Restart Game"

Completes(cs) == \E i \in 1..Len(cs) : cs[i] = "completeLevel"

\* completeLevel(): LEVELS[currentLevel].unlocked = true
UnlockNextButOne(u, lvl) ==
    IF lvl + 1 < NumLevels THEN [u EXCEPT ![lvl + 2] = TRUE] ELSE u

UnlockNext(u, lvl) ==
    IF lvl < NumLevels THEN [u EXCEPT ![lvl + 1] = TRUE] ELSE u

\* loadTowerModel(): one more load whose callback is still to come
CanLoad == towerLoads < MaxLoads

\* the session fields restartGame() and returnToMainMenu() reset
ResetSessionKeepingSpeed ==
    /\ speed' = speed
    /\ score' = 0
    /\ distance' = 0
    /\ planePosition' = [x |-> 0, y |-> 500, z |-> 0]
    /\ planeRotation' = [x |-> 0, y |-> 0, z |-> 0]
    /\ cameraAngle' = 0
    /\ firstPersonView' = FALSE

ResetSessionKeepingView ==
    /\ speed' = INITIAL_SPEED
    /\ score' = 0
    /\ distance' = 0
    /\ planePosition' = [x |-> 0, y |-> 500, z |-> 0]
    /\ planeRotation' = [x |-> 0, y |-> 0, z |-> 0]
    /\ cameraAngle' = 0
    /\ firstPersonView' = firstPersonView

ResetSession ==
    /\ speed' = INITIAL_SPEED
    /\ score' = 0
    /\ distance' = 0
    /\ planePosition' = [x |-> 0, y |-> 500, z |-> 0]
    /\ planeRotation' = [x |-> 0, y |-> 0, z |-> 0]
    /\ cameraAngle' = 0
    /\ firstPersonView' = FALSE

\* ------------------------------------------------------------------ update()
PausedOnGameOverOnly == gameOver

\* the guard update() returns on
Paused == ~gameStarted \/ gameOver

\* The body of the frame callback; n is the tick count recorded when it acts.
tick(n) ==
    /\ Playing => RotExact(planeRotation.z) /\ RotExact(planeRotation.x)
    /\ lastOp' = "update"
    /\ UNCHANGED advanceTimers
    /\ UNCHANGED <<keys, keyEvents>>
    /\ IF Paused
       THEN /\ calls' = <<>>
            /\ UNCHANGED <<simVars, ticks>>
       ELSE LET sp == Throttle(speed, keys)
                x1 == SteerX(planePosition.x, keys)
                rz == SteerRoll(planeRotation.z, keys)
                y1 == PitchY(planePosition.y, keys)
                rx == PitchRot(planeRotation.x, keys)
                cam == CameraStep(cameraAngle, keys)
            IN  /\ ticks' = n
                /\ speed' = sp
                /\ planeRotation' = [planeRotation EXCEPT !.z = rz, !.x = rx]
                /\ cameraAngle' = cam
                /\ IF ~planeLoaded
                   THEN \* plane is undefined: the write to plane.position throws
                        /\ planePosition' = [planePosition EXCEPT !.x = x1, !.y = y1]
                        /\ calls' = <<"throw">>
                        /\ UNCHANGED <<gameStarted, gameOver, currentLevel, levelDistance,
                                       unlocked, score, distance, firstPersonView, pillars,
                                       barriers, goldenRing, planeLoaded, planeVisible,
                                       planeLoadPending, towerLoads, restartBtnText,
                                       startScreenHidden, gameOverHidden>>
                   ELSE LET z1 == planePosition.z + sp
                            marked == MarkPassed(pillars, z1)
                            x2 == ClampX(x1)
                            cs == PillarHits(marked, x1, y1, z1) \o GroundHit(y1)
                                  \o RingArrival(goldenRing, x2, y1, z1)
                                  \o FlewPast(goldenRing, z1)
                        IN  /\ planePosition' = [x |-> x2, y |-> y1, z |-> z1]
                            /\ distance' = distance + sp
                            /\ score' = score + SCORE_PER_PILLAR * PassedNow(pillars, z1)
                            /\ pillars' \in {EvictPillars(StreamPillars(marked, z1, pat), z1) :
                                               pat \in RowPatterns}
                            /\ calls' = cs
                            /\ gameOver' = (cs # <<>>)
                            /\ gameStarted' = (cs = <<>>)
                            /\ gameOverHidden' = (gameOverHidden /\ cs = <<>>)
                            /\ restartBtnText' = BtnAfter(cs, restartBtnText)
                            /\ unlocked' = IF Completes(cs)
                                           THEN UnlockNext(unlocked, currentLevel)
                                           ELSE unlocked
                            /\ UNCHANGED <<currentLevel, levelDistance, firstPersonView,
                                           barriers, goldenRing, planeLoaded, planeVisible,
                                           planeLoadPending, towerLoads, startScreenHidden>>

\* The frame callback.
update ==
    /\ Playing => ticks < MaxTicks
    /\ tick(ticks + 1)

\* ------------------------------------------------------------- input events
onKeyDownImmediateThrottle(k) ==
    /\ keyEvents < MaxKeyEvents
    /\ keyEvents' = keyEvents + 1
    /\ keys' = keys \cup {k}
    /\ lastOp' = "onKeyDown"
    /\ UNCHANGED advanceTimers
    /\ calls' = <<>>
    /\ speed' = Throttle(speed, {k})
    /\ IF k = "c" /\ planeLoaded
       THEN /\ firstPersonView' = ~firstPersonView
            /\ planeVisible' = firstPersonView
       ELSE UNCHANGED <<firstPersonView, planeVisible>>
    /\ UNCHANGED <<gameStarted, gameOver, currentLevel, levelDistance, unlocked,
                   score, distance, planeRotation, planePosition, cameraAngle,
                   pillars, barriers, goldenRing, planeLoaded, planeLoadPending,
                   towerLoads, restartBtnText, startScreenHidden, gameOverHidden, ticks>>

onKeyDown(k) ==
    /\ keyEvents < MaxKeyEvents
    /\ keyEvents' = keyEvents + 1
    /\ keys' = keys \cup {k}
    /\ lastOp' = "onKeyDown"
    /\ UNCHANGED advanceTimers
    /\ calls' = <<>>
    /\ IF k = "c" /\ planeLoaded
       THEN /\ firstPersonView' = ~firstPersonView
            /\ planeVisible' = firstPersonView
       ELSE UNCHANGED <<firstPersonView, planeVisible>>
    /\ UNCHANGED <<gameStarted, gameOver, currentLevel, levelDistance, unlocked,
                   speed, score, distance, planeRotation, planePosition, cameraAngle,
                   pillars, barriers, goldenRing, planeLoaded, planeLoadPending,
                   towerLoads, restartBtnText, startScreenHidden, gameOverHidden, ticks>>

onKeyUp(k) ==
    /\ k \in keys
    /\ keyEvents < MaxKeyEvents
    /\ keyEvents' = keyEvents + 1
    /\ keys' = keys \ {k}
    /\ lastOp' = "onKeyUp"
    /\ UNCHANGED advanceTimers
    /\ calls' = <<>>
    /\ UNCHANGED <<simVars, ticks>>

KeyDown == \E k \in EventKeys : onKeyDown(k)
KeyUp == \E k \in EventKeys : onKeyUp(k)

\* --------------------------------------------------------------- UI handlers
\* the level button clicked, as lastOp records it
SelectLevelOp ==
    <<"selectLevel:1", "selectLevel:2", "selectLevel:3", "selectLevel:4", "selectLevel:5">>

LockedNever(levelNum) == FALSE

Locked(levelNum) == LOCK_LEVEL /\ ~unlocked[levelNum]

selectLevel(levelNum) ==
    /\ ~startScreenHidden
    /\ lastOp' = SelectLevelOp[levelNum]
    /\ UNCHANGED advanceTimers
    /\ UNCHANGED <<keys, ticks, keyEvents>>
    /\ IF Locked(levelNum)
       THEN /\ calls' = <<"alert">>
            /\ UNCHANGED simVars
       ELSE /\ CanLoad
            /\ calls' = <<>>
            /\ currentLevel' = levelNum
            /\ levelDistance' = LevelDistances[levelNum]
            /\ pillars' = <<>>
            /\ towerLoads' = towerLoads + 1
            /\ startScreenHidden' = TRUE
            /\ gameStarted' = TRUE
            /\ gameOver' = FALSE
            /\ UNCHANGED <<unlocked, speed, score, distance, planeRotation, planePosition,
                           cameraAngle, firstPersonView, barriers, goldenRing, planeLoaded,
                           planeVisible, planeLoadPending, restartBtnText, gameOverHidden>>

SelectLevel == \E n \in 1..NumLevels : selectLevel(n)

startGame ==
    /\ ~startScreenHidden
    /\ lastOp' = "startGame"
    /\ UNCHANGED advanceTimers
    /\ calls' = <<>>
    /\ gameStarted' = TRUE
    /\ startScreenHidden' = TRUE
    /\ UNCHANGED <<gameOver, currentLevel, levelDistance, unlocked, speed, score, distance,
                   planeRotation, planePosition, cameraAngle, firstPersonView, pillars,
                   barriers, goldenRing, planeLoaded, planeVisible, planeLoadPending,
                   towerLoads, restartBtnText, gameOverHidden, keys, ticks, keyEvents>>

\* "Continue" advances the level before the reset
NextLevelWhateverButton(btn, lvl) == IF lvl < NumLevels THEN lvl + 1 ELSE lvl

NextLevelWrapping(btn, lvl) == IF btn = "Continue" THEN (lvl % NumLevels) + 1 ELSE lvl

NextLevel(btn, lvl) == IF btn = "Continue" /\ lvl < NumLevels THEN lvl + 1 ELSE lvl

restartGame ==
    /\ ~gameOverHidden
    /\ planeLoaded => CanLoad
    /\ lastOp' = "restartGame"
    /\ UNCHANGED advanceTimers
    /\ calls' = IF planeLoaded THEN <<>> ELSE <<"throw">>
    /\ currentLevel' = NextLevel(restartBtnText, currentLevel)
    /\ levelDistance' = LevelDistances[NextLevel(restartBtnText, currentLevel)]
    /\ restartBtnText' = "Restart Game"
    /\ gameOver' = FALSE
    /\ gameStarted' = TRUE
    /\ ResetSession
    /\ IF planeLoaded
       THEN /\ planeVisible' = TRUE
            /\ pillars' = <<>>
            /\ towerLoads' = towerLoads + 1
            /\ gameOverHidden' = TRUE
       ELSE \* plane is undefined: plane.position.set throws
            UNCHANGED <<planeVisible, pillars, towerLoads, gameOverHidden>>
    /\ UNCHANGED <<unlocked, barriers, goldenRing, planeLoaded, planeLoadPending,
                   startScreenHidden, keys, ticks, keyEvents>>

returnToMainMenu ==
    /\ ~gameOverHidden
    /\ lastOp' = "returnToMainMenu"
    /\ UNCHANGED advanceTimers
    /\ calls' = <<>>
    /\ gameOver' = FALSE
    /\ gameStarted' = FALSE
    /\ ResetSession
    /\ planeVisible' = IF planeLoaded THEN TRUE ELSE planeVisible
    /\ pillars' = <<>>
    /\ gameOverHidden' = TRUE
    /\ startScreenHidden' = FALSE
    /\ UNCHANGED <<currentLevel, levelDistance, unlocked, barriers, goldenRing, planeLoaded,
                   planeLoadPending, towerLoads, restartBtnText, keys, ticks, keyEvents>>

\* ----------------------------------------------------------- load callbacks
planeLoadedCallback ==
    /\ planeLoadPending
    /\ lastOp' = "planeLoaded"
    /\ UNCHANGED advanceTimers
    /\ calls' = <<>>
    /\ planeLoadPending' = FALSE
    /\ planeLoaded' = TRUE
    /\ planeVisible' = TRUE
    /\ UNCHANGED <<gameStarted, gameOver, currentLevel, levelDistance, unlocked, speed,
                   score, distance, planeRotation, planePosition, cameraAngle,
                   firstPersonView, pillars, barriers, goldenRing, towerLoads,
                   restartBtnText, startScreenHidden, gameOverHidden, keys, ticks, keyEvents>>

planeLoadError ==
    /\ planeLoadPending
    /\ lastOp' = "planeLoadError"
    /\ UNCHANGED advanceTimers
    /\ calls' = <<>>
    /\ planeLoadPending' = FALSE
    /\ UNCHANGED <<gameStarted, gameOver, currentLevel, levelDistance, unlocked, speed,
                   score, distance, planeRotation, planePosition, cameraAngle,
                   firstPersonView, pillars, barriers, goldenRing, planeLoaded, planeVisible,
                   towerLoads, restartBtnText, startScreenHidden, gameOverHidden,
                   keys, ticks, keyEvents>>

\* success callback of loadTowerModel(): clear, then generate for levelDistance
towerLoadedCallback(pat) ==
    /\ towerLoads > 0
    /\ lastOp' = "towerLoaded"
    /\ UNCHANGED advanceTimers
    /\ calls' = <<>>
    /\ towerLoads' = towerLoads - 1
    /\ pillars' = generatePillars(<<>>, levelDistance, pat)
    /\ barriers' = createBarriers
    /\ goldenRing' = createGoldenRing(levelDistance)
    /\ UNCHANGED <<gameStarted, gameOver, currentLevel, levelDistance, unlocked, speed,
                   score, distance, planeRotation, planePosition, cameraAngle,
                   firstPersonView, planeLoaded, planeVisible, planeLoadPending,
                   restartBtnText, startScreenHidden, gameOverHidden, keys, ticks, keyEvents>>

\* error callback of loadTowerModel(): generate without clearing
towerLoadError(pat) ==
    /\ towerLoads > 0
    /\ lastOp' = "towerLoadError"
    /\ UNCHANGED advanceTimers
    /\ calls' = <<>>
    /\ towerLoads' = towerLoads - 1
    /\ pillars' = generatePillars(pillars, levelDistance, pat)
    /\ barriers' = createBarriers
    /\ goldenRing' = createGoldenRing(levelDistance)
    /\ UNCHANGED <<gameStarted, gameOver, currentLevel, levelDistance, unlocked, speed,
                   score, distance, planeRotation, planePosition, cameraAngle,
                   firstPersonView, planeLoaded, planeVisible, planeLoadPending,
                   restartBtnText, startScreenHidden, gameOverHidden, keys, ticks, keyEvents>>

TowerLoaded == \E pat \in RowPatterns : towerLoadedCallback(pat)
TowerLoadError == \E pat \in RowPatterns : towerLoadError(pat)

\* ------------------------------------------------------------------- Init
\* The state init() leaves: both model loads requested, the start screen up.
ConstructedInit ==
    /\ gameStarted = FALSE
    /\ gameOver = FALSE
    /\ currentLevel = 1
    /\ levelDistance = LevelDistances[1]
    /\ unlocked = InitialUnlocked
    /\ speed = INITIAL_SPEED
    /\ score = 0
    /\ distance = 0
    /\ planeRotation = [x |-> 0, y |-> 0, z |-> 0]
    /\ planePosition = [x |-> 0, y |-> 500, z |-> 0]
    /\ cameraAngle = 0
    /\ firstPersonView = FALSE
    /\ keys = {}
    /\ pillars = <<>>
    /\ barriers = {}
    /\ goldenRing = <<>>
    /\ planeLoaded = FALSE
    /\ planeVisible = TRUE
    /\ planeLoadPending = TRUE
    /\ towerLoads = 1
    /\ restartBtnText = "Restart Game"
    /\ startScreenHidden = FALSE
    /\ gameOverHidden = TRUE
    /\ lastOp = "init"
    /\ calls = <<>>
    /\ ticks = 0
    /\ keyEvents = 0
    /\ advanceTimers = 0

(***************************************************************************)
(* Flights in progress.  A level is 3000 to 15000 long and a tick moves    *)
(* the plane by at most 5, so the states near a pillar row or the goal     *)
(* ring lie hundreds of ticks from init().  The model therefore also       *)
(* starts from states of a flight in progress.  Each is a state the       *)
(* program reaches: speed, x, y, roll and pitch are multiples of their    *)
(* per-tick steps inside their clamps, z = distance, the live pillars are  *)
(* the rows the generator has produced that eviction has not removed,      *)
(* those behind the plane are marked passed and scored, and no end-of-game *)
(* check fired in the tick that produced the state (Quiet).                *)
(* A flight with the toggle key c held is in first-person view, the key     *)
(* having gone down once.                                                  *)
(*   first = 6000: generatePillars() after a tower load (rows 60, 110, ...)*)
(*   first = 5000: the game was started from the menu after                *)
(*                 returnToMainMenu(), which empties pillars and keeps the *)
(*                 ring; update() then streams rows 50, 100, ...           *)
(***************************************************************************)
\* first row, in the sequence first, first + PILLAR_SPACING, ..., that is >= lo
FirstRowFrom(first, lo) ==
    IF lo <= first THEN first
    ELSE first + ((lo - first + PILLAR_SPACING - 1) \div PILLAR_SPACING) * PILLAR_SPACING

ScenarioPillars(sc) ==
    MarkPassed(GenerateRows(FirstRowFrom(sc.first, sc.z - EVICT_BEHIND), sc.frontier + 1, sc.pat),
               sc.z)

Quiet(ps, rings, x, y, z) ==
    PillarHits(ps, x, y, z) \o GroundHit(y) \o RingArrival(rings, x, y, z) \o FlewPast(rings, z) = <<>>

Scenario(lvl, first, frontier, pat, x, y, z, sp, roll, pitch, ks) ==
    [lvl |-> lvl, first |-> first, frontier |-> frontier, pat |-> pat, x |-> x, y |-> y,
     z |-> z, sp |-> sp, roll |-> roll, pitch |-> pitch, ks |-> ks]

\* approaching, inside reach of, and just beyond the goal ring of level 1 (at 2950)
RingScenarios ==
    { Scenario(1, g[1], g[2], g[3], xy[1], xy[2], 294400, 500, 0, 0, {}) :
        g \in {<<5000, 320000, <<-400, 401, 3999>>>>, <<5000, 320000, <<1500>>>>,
               <<6000, 316000, <<-400, 401, 3999>>>>},
        xy \in {<<0, 500>>, <<600, 800>>, <<630, 800>>, <<480, 1440>>, <<810, 800>>} }
    \cup
    { Scenario(1, g[1], g[2], <<-400, 401, 3999>>, xy[1], xy[2], zs[1], zs[2], 0, 0, {}) :
        g \in {<<5000, 320000>>, <<6000, 316000>>},
        xy \in {<<0, 500>>, <<810, 800>>},
        zs \in {<<294790, 500>>, <<294795, 10>>, <<295700, 500>>} }

\* approaching the goal ring of levels 2 and 5
LaterRingScenarios ==
    { Scenario(lvl, 6000, LevelDistances[lvl] + 16000, <<-400, 401, 3999>>, 810, 500,
               LevelDistances[lvl] - 5600, 500, 0, 0, {}) :
        lvl \in {2, 5} }

\* mid-level, just before the row at 1200
RowScenarios ==
    { Scenario(1, g[1], g[2], g[3], x, 500, zs[1], zs[2], 0, 0, {}) :
        g \in {<<5000, 140000, <<-400, 401, 3999>>>>, <<6000, 286000, <<1500>>>>},
        x \in {0, 810},
        zs \in {<<119650, 500>>, <<119790, 10>>, <<119895, 10>>} }
    \cup
    { Scenario(1, 5000, 140000, <<-400, 401, 3999>>, 0, 500, 119790, 500, 0, 0, {}) }

\* at the edges of the movement envelopes
EnvelopeScenarios ==
    { Scenario(1, 5000, 140000, <<1500>>, e[1], e[2], 111000, e[3], e[4], e[5], e[6]) :
        e \in {<<3900, 1500, 500, -300000000, -300000000, {"a", "arrowdown"}>>,
               <<-3900, 100, 10, 300000000, 300000000, {"d", "arrowup"}>>,
               <<3870, 1490, 499, -280000000, -290000000, {"w", "s"}>>,
               <<-3870, 110, 11, 280000000, 290000000, {"s"}>>,
               <<0, 500, 500, 20000000, -20000000, {"w"}>>,
               <<30, 500, 10, 0, 0, {"w", "s"}>>,
               <<0, 500, 500, 0, 0, {"c"}>>} }

\* level 1 with the rows of a tower load (60 .. 2860), the plane about to come
\* within 200 of the last of them
GoalApproachScenarios ==
    { Scenario(1, 6000, 286000, <<1500>>, 0, 500, 265700, 500, 0, 0, {}) }

Scenarios ==
    { sc \in RingScenarios \cup LaterRingScenarios \cup RowScenarios \cup EnvelopeScenarios
              \cup GoalApproachScenarios :
        Quiet(ScenarioPillars(sc), createGoldenRing(LevelDistances[sc.lvl]), sc.x, sc.y, sc.z) }

FlightInit(sc) ==
    /\ gameStarted = TRUE
    /\ gameOver = FALSE
    /\ currentLevel = sc.lvl
    /\ levelDistance = LevelDistances[sc.lvl]
    /\ unlocked = [n \in 1..NumLevels |-> n <= sc.lvl]
    /\ speed = sc.sp
    /\ score = SCORE_PER_PILLAR * Len(sc.pat) * RowCount(sc.first, sc.z)
    /\ distance = sc.z
    /\ planeRotation = [x |-> sc.pitch, y |-> 0, z |-> sc.roll]
    /\ planePosition = [x |-> sc.x, y |-> sc.y, z |-> sc.z]
    /\ cameraAngle = 0
    /\ firstPersonView = ("c" \in sc.ks)
    /\ keys = sc.ks
    /\ pillars = ScenarioPillars(sc)
    /\ barriers = createBarriers
    /\ goldenRing = createGoldenRing(LevelDistances[sc.lvl])
    /\ planeLoaded = TRUE
    /\ planeVisible = ("c" \notin sc.ks)
    /\ planeLoadPending = FALSE
    /\ towerLoads = 0
    /\ restartBtnText = "Restart Game"
    /\ startScreenHidden = TRUE
    /\ gameOverHidden = TRUE
    /\ lastOp = "update"
    /\ calls = <<>>
    /\ ticks = 0
    /\ keyEvents = 0
    /\ advanceTimers = 0

\* The state of flight sc with the ring, barriers, pending tower loads, restart
\* button text and unlock flags given.
FlightStateOf(sc, ring, bars, loads, btn, unl) ==
    /\ gameStarted = TRUE
    /\ gameOver = FALSE
    /\ currentLevel = sc.lvl
    /\ levelDistance = LevelDistances[sc.lvl]
    /\ unlocked = unl
    /\ speed = sc.sp
    /\ score = SCORE_PER_PILLAR * Len(sc.pat) * RowCount(sc.first, sc.z)
    /\ distance = sc.z
    /\ planeRotation = [x |-> sc.pitch, y |-> 0, z |-> sc.roll]
    /\ planePosition = [x |-> sc.x, y |-> sc.y, z |-> sc.z]
    /\ cameraAngle = 0
    /\ firstPersonView = ("c" \in sc.ks)
    /\ keys = sc.ks
    /\ pillars = ScenarioPillars(sc)
    /\ barriers = bars
    /\ goldenRing = ring
    /\ planeLoaded = TRUE
    /\ planeVisible = ("c" \notin sc.ks)
    /\ planeLoadPending = FALSE
    /\ towerLoads = loads
    /\ restartBtnText = btn
    /\ startScreenHidden = TRUE
    /\ gameOverHidden = TRUE
    /\ lastOp = "update"
    /\ calls = <<>>
    /\ ticks = 0
    /\ keyEvents = 0
    /\ advanceTimers = 0

\* A flight begun with startGame() while the tower model of init() was still
\* loading: no ring and no barriers yet, the pillars are the rows update()
\* streamed, and the load is still to complete.
LoadingScenarios ==
    { Scenario(1, 5000, 140000, <<-400, 401, 3999>>, x, 500, 119650, 500, 0, 0, {}) :
        x \in {0, 810} }
    \cup
    { Scenario(1, 5000, 140000, <<1500>>, 3900, 500, 119650, 500, -300000000, 0, {"a"}) }

LoadingFlightInit(sc) ==
    FlightStateOf(sc, <<>>, {}, 1, "Restart Game", InitialUnlocked)

\* A flight on level 1 begun from the menu after level 1 was completed:
\* returnToMainMenu() and startGame() leave the button text of completeLevel()
\* and the ring in place, level 2 is unlocked, the rows are streamed.
AfterCompletionScenarios ==
    { Scenario(1, 5000, 140000, <<-400, 401, 3999>>, x, 500, 119650, 500, 0, 0, {}) :
        x \in {0, 810} }

AfterCompletionFlightInit(sc) ==
    FlightStateOf(sc, createGoldenRing(LevelDistances[sc.lvl]), createBarriers, 0, "Continue",
                  [n \in 1..NumLevels |-> n <= sc.lvl + 1])

Init ==
    \/ ConstructedInit
    \/ \E sc \in Scenarios : FlightInit(sc)
    \/ \E sc \in LoadingScenarios : LoadingFlightInit(sc)
    \/ \E sc \in AfterCompletionScenarios : AfterCompletionFlightInit(sc)

Next ==
    \/ update
    \/ KeyDown
    \/ KeyUp
    \/ SelectLevel
    \/ startGame
    \/ restartGame
    \/ returnToMainMenu
    \/ planeLoadedCallback
    \/ planeLoadError
    \/ TowerLoaded
    \/ TowerLoadError

Spec == Init /\ [][Next]_vars

\* The same game with, besides, a flight of the last level about to pass through
\* the centre of its goal ring.
LastLevelScenarios ==
    { Scenario(NumLevels, 6000, LevelDistances[NumLevels] + 16000, <<-400, 401, 3999>>, 0, 500,
               LevelDistances[NumLevels] - 5600, 500, 0, 0, {}) }

LevelInit ==
    \/ Init
    \/ \E sc \in LastLevelScenarios : FlightInit(sc)

LevelSpec == LevelInit /\ [][Next]_vars

(***************************************************************************)
(* src/game.js, the variant of the game without barriers and tower model.  *)
(* Its update() is the one above without the barrier clamp; pillars and    *)
(* ring are generated synchronously, the rows starting at z = 20;          *)
(* completeLevel() arms a 3 s timer that advances the level, counted in    *)
(* advanceTimers.  onKeyDown, onKeyUp, startGame, returnToMainMenu and the *)
(* callbacks of createPlane are the same in both files.                    *)
(***************************************************************************)
GAME_JS_FIRST_ROW == 2000

gameJsGeneratePillars(ld, pat) == GenerateRows(GAME_JS_FIRST_ROW, ld - GOAL_CLEARANCE, pat)

\* completeLevel() arms the timer only below the last level
ArmsTimer(cs, lvl) == Completes(cs) /\ lvl < NumLevels

gameJsUpdate ==
    /\ Playing => ticks < MaxTicks
    /\ Playing => RotExact(planeRotation.z) /\ RotExact(planeRotation.x)
    /\ lastOp' = "update"
    /\ UNCHANGED <<keys, keyEvents>>
    /\ IF Paused
       THEN /\ calls' = <<>>
            /\ UNCHANGED <<simVars, ticks, advanceTimers>>
       ELSE LET sp == Throttle(speed, keys)
                x1 == SteerX(planePosition.x, keys)
                rz == SteerRoll(planeRotation.z, keys)
                y1 == PitchY(planePosition.y, keys)
                rx == PitchRot(planeRotation.x, keys)
                cam == CameraStep(cameraAngle, keys)
            IN  /\ ticks' = ticks + 1
                /\ speed' = sp
                /\ planeRotation' = [planeRotation EXCEPT !.z = rz, !.x = rx]
                /\ cameraAngle' = cam
                /\ IF ~planeLoaded
                   THEN /\ planePosition' = [planePosition EXCEPT !.x = x1, !.y = y1]
                        /\ calls' = <<"throw">>
                        /\ UNCHANGED <<gameStarted, gameOver, currentLevel, levelDistance,
                                       unlocked, score, distance, firstPersonView, pillars,
                                       barriers, goldenRing, planeLoaded, planeVisible,
                                       planeLoadPending, towerLoads, restartBtnText,
                                       startScreenHidden, gameOverHidden, advanceTimers>>
                   ELSE LET z1 == planePosition.z + sp
                            marked == MarkPassed(pillars, z1)
                            cs == PillarHits(marked, x1, y1, z1) \o GroundHit(y1)
                                  \o RingArrival(goldenRing, x1, y1, z1)
                                  \o FlewPast(goldenRing, z1)
                        IN  /\ planePosition' = [x |-> x1, y |-> y1, z |-> z1]
                            /\ distance' = distance + sp
                            /\ score' = score + SCORE_PER_PILLAR * PassedNow(pillars, z1)
                            /\ pillars' \in {EvictPillars(StreamPillars(marked, z1, pat), z1) :
                                               pat \in RowPatterns}
                            /\ calls' = cs
                            /\ gameOver' = (cs # <<>>)
                            /\ gameStarted' = (cs = <<>>)
                            /\ gameOverHidden' = (gameOverHidden /\ cs = <<>>)
                            /\ restartBtnText' = BtnAfter(cs, restartBtnText)
                            /\ unlocked' = IF Completes(cs)
                                           THEN UnlockNext(unlocked, currentLevel)
                                           ELSE unlocked
                            /\ advanceTimers' = IF ArmsTimer(cs, currentLevel)
                                                THEN advanceTimers + 1
                                                ELSE advanceTimers
                            /\ UNCHANGED <<currentLevel, levelDistance, firstPersonView,
                                           barriers, goldenRing, planeLoaded, planeVisible,
                                           planeLoadPending, towerLoads, startScreenHidden>>

\* selectLevel() of game.js: the level, then startGame()
gameJsSelectLevel(levelNum) ==
    /\ ~startScreenHidden
    /\ lastOp' = SelectLevelOp[levelNum]
    /\ UNCHANGED <<keys, ticks, keyEvents, advanceTimers>>
    /\ IF ~unlocked[levelNum]
       THEN /\ calls' = <<"alert">>
            /\ UNCHANGED simVars
       ELSE /\ calls' = <<>>
            /\ currentLevel' = levelNum
            /\ levelDistance' = LevelDistances[levelNum]
            /\ gameStarted' = TRUE
            /\ startScreenHidden' = TRUE
            /\ UNCHANGED <<gameOver, unlocked, speed, score, distance, planeRotation,
                           planePosition, cameraAngle, firstPersonView, pillars, barriers,
                           goldenRing, planeLoaded, planeVisible, planeLoadPending,
                           towerLoads, restartBtnText, gameOverHidden>>

GameJsSelectLevel == \E n \in 1..NumLevels : gameJsSelectLevel(n)

\* the body of restartGame() of game.js, for the target distance ld; with the
\* plane undefined it throws after the reset of the session and leaves the
\* game-over screen as the caller had it
gameJsRestartBody(ld, hiddenBefore) ==
    /\ gameOver' = FALSE
    /\ gameStarted' = TRUE
    /\ ResetSession
    /\ IF planeLoaded
       THEN /\ planeVisible' = TRUE
            /\ pillars' \in {gameJsGeneratePillars(ld, pat) : pat \in RowPatterns}
            /\ goldenRing' = createGoldenRing(ld)
            /\ gameOverHidden' = TRUE
       ELSE /\ UNCHANGED <<planeVisible, pillars, goldenRing>>
            /\ gameOverHidden' = hiddenBefore
    /\ UNCHANGED <<unlocked, barriers, planeLoaded, planeLoadPending, towerLoads,
                   restartBtnText, startScreenHidden, keys, ticks, keyEvents>>

gameJsRestartGame ==
    /\ ~gameOverHidden
    /\ lastOp' = "restartGame"
    /\ calls' = IF planeLoaded THEN <<>> ELSE <<"throw">>
    /\ UNCHANGED <<currentLevel, levelDistance, advanceTimers>>
    /\ gameJsRestartBody(levelDistance, gameOverHidden)

\* the callback of the timer completeLevel() armed
autoAdvance ==
    /\ advanceTimers > 0
    /\ advanceTimers' = advanceTimers - 1
    /\ lastOp' = "autoAdvance"
    /\ currentLevel' = currentLevel + 1
    /\ IF currentLevel + 1 > NumLevels
       THEN \* LEVELS[currentLevel - 1] is undefined: reading .distance throws
            /\ calls' = <<"throw">>
            /\ gameOverHidden' = TRUE
            /\ UNCHANGED <<gameStarted, gameOver, levelDistance, unlocked, speed, score,
                           distance, planeRotation, planePosition, cameraAngle,
                           firstPersonView, pillars, barriers, goldenRing, planeLoaded,
                           planeVisible, planeLoadPending, towerLoads, restartBtnText,
                           startScreenHidden, keys, ticks, keyEvents>>
       ELSE /\ calls' = IF planeLoaded THEN <<>> ELSE <<"throw">>
            /\ levelDistance' = LevelDistances[currentLevel + 1]
            /\ gameJsRestartBody(LevelDistances[currentLevel + 1], TRUE)

\* init() of game.js: pillars and ring of level 1 in place, the plane loading
GameJsConstructedInit ==
    /\ gameStarted = FALSE
    /\ gameOver = FALSE
    /\ currentLevel = 1
    /\ levelDistance = LevelDistances[1]
    /\ unlocked = InitialUnlocked
    /\ speed = INITIAL_SPEED
    /\ score = 0
    /\ distance = 0
    /\ planeRotation = [x |-> 0, y |-> 0, z |-> 0]
    /\ planePosition = [x |-> 0, y |-> 500, z |-> 0]
    /\ cameraAngle = 0
    /\ firstPersonView = FALSE
    /\ keys = {}
    /\ pillars \in {gameJsGeneratePillars(LevelDistances[1], pat) : pat \in RowPatterns}
    /\ barriers = {}
    /\ goldenRing = createGoldenRing(LevelDistances[1])
    /\ planeLoaded = FALSE
    /\ planeVisible = TRUE
    /\ planeLoadPending = TRUE
    /\ towerLoads = 0
    /\ restartBtnText = "Restart Game"
    /\ startScreenHidden = FALSE
    /\ gameOverHidden = TRUE
    /\ lastOp = "init"
    /\ calls = <<>>
    /\ ticks = 0
    /\ keyEvents = 0
    /\ advanceTimers = 0

\* flights of game.js arriving at the ring of levels 1 and 4, rows 20, 70, ...
GameJsScenarios ==
    { sc \in { Scenario(lvl, GAME_JS_FIRST_ROW, LevelDistances[lvl] + 17000, <<-400, 401, 3999>>,
                        xy[1], xy[2], LevelDistances[lvl] - 5600, 500, 0, 0, xy[3]) :
                 lvl \in {1, 4},
                 xy \in {<<0, 500, {}>>, <<630, 800, {}>>, <<810, 800, {}>>, <<0, 800, {"d"}>>} } :
        Quiet(ScenarioPillars(sc), createGoldenRing(LevelDistances[sc.lvl]), sc.x, sc.y, sc.z) }

GameJsFlightInit(sc) ==
    FlightStateOf(sc, createGoldenRing(LevelDistances[sc.lvl]), {}, 0, "Restart Game",
                  [n \in 1..NumLevels |-> n <= sc.lvl])

GameJsInit ==
    \/ GameJsConstructedInit
    \/ \E sc \in GameJsScenarios : GameJsFlightInit(sc)

GameJsNext ==
    \/ gameJsUpdate
    \/ KeyDown
    \/ KeyUp
    \/ GameJsSelectLevel
    \/ startGame
    \/ gameJsRestartGame
    \/ returnToMainMenu
    \/ planeLoadedCallback
    \/ planeLoadError
    \/ autoAdvance

GameJsSpec == GameJsInit /\ [][GameJsNext]_vars

(***************************************************************************)
(* The speed controls of update() in the arithmetic the program runs in.   *)
(* speed is a JavaScript number, an IEEE 754 double, and 0.01 is not one   *)
(* exactly, so speed + 0.01 rounds.  Every double between 0.0625 and 8 is  *)
(* a multiple of 2^-59; a double is held here as that multiple, written as *)
(* three limbs <<hi, mid, lo>> in base 2^21.  ThrottleSpec iterates the    *)
(* speed controls alone, from a reset or from a flight at MAX_SPEED, with  *)
(* the keys held throughout; speed holds the double, ticks counts the      *)
(* ticks since the reset, and the rest of the state stays as it is.        *)
(***************************************************************************)
LimbBase == 2^21

\* the doubles the literals 0.01, 0.5, 5 and 0.1 denote
DOUBLE_SPEED_STEP == <<1310, 1509949, 922747>>
DOUBLE_INITIAL_SPEED == <<65536, 0, 0>>
DOUBLE_MAX_SPEED == <<655360, 0, 0>>
DOUBLE_MIN_SPEED == <<13107, 419430, 838864>>

\* a + b and a - b (for a >= b) as real numbers
ExactSum(a, b) ==
    LET lo == a[3] + b[3]
        mid == a[2] + b[2] + lo \div LimbBase
        hi == a[1] + b[1] + mid \div LimbBase
    IN  <<hi, mid % LimbBase, lo % LimbBase>>

ExactDifference(a, b) ==
    LET lo == a[3] - b[3]
        bl == IF lo < 0 THEN 1 ELSE 0
        mid == a[2] - b[2] - bl
        bm == IF mid < 0 THEN 1 ELSE 0
    IN  <<a[1] - b[1] - bm, mid + bm * LimbBase, lo + bl * LimbBase>>

\* the spacing of the doubles around v, in units of 2^-59: 2^3 in
\* [0.0625, 0.125), doubling with every power of two up to 2^9 in [4, 8)
UlpOf(v) ==
    IF v[1] < 2^14 THEN 2^3
    ELSE IF v[1] < 2^15 THEN 2^4
    ELSE IF v[1] < 2^16 THEN 2^5
    ELSE IF v[1] < 2^17 THEN 2^6
    ELSE IF v[1] < 2^18 THEN 2^7
    ELSE IF v[1] < 2^19 THEN 2^8
    ELSE 2^9

\* round to nearest double, ties to even
RoundToDouble(v) ==
    LET q == UlpOf(v)
        r == v[3] % q
        down == <<v[1], v[2], v[3] - r>>
        odd == (v[3] \div q) % 2 = 1
    IN  IF 2 * r > q \/ (2 * r = q /\ odd) THEN ExactSum(down, <<0, 0, q>>) ELSE down

DoubleAdd(a, b) == RoundToDouble(ExactSum(a, b))

DoubleSubtract(a, b) == RoundToDouble(ExactDifference(a, b))

DoubleLess(a, b) ==
    \/ a[1] < b[1]
    \/ a[1] = b[1] /\ a[2] < b[2]
    \/ a[1] = b[1] /\ a[2] = b[2] /\ a[3] < b[3]

MathMin(a, b) == IF DoubleLess(b, a) THEN b ELSE a

MathMax(a, b) == IF DoubleLess(a, b) THEN b ELSE a

ThrottleDoubleUncapped(sp, ks) ==
    LET s1 == IF "w" \in ks THEN DoubleAdd(sp, DOUBLE_SPEED_STEP) ELSE sp
    IN  IF "s" \in ks
        THEN MathMax(DoubleSubtract(s1, DOUBLE_SPEED_STEP), DOUBLE_MIN_SPEED)
        ELSE s1

ThrottleDouble(sp, ks) ==
    LET s1 == IF "w" \in ks
              THEN MathMin(DoubleAdd(sp, DOUBLE_SPEED_STEP), DOUBLE_MAX_SPEED)
              ELSE sp
    IN  IF "s" \in ks
        THEN MathMax(DoubleSubtract(s1, DOUBLE_SPEED_STEP), DOUBLE_MIN_SPEED)
        ELSE s1

\* the fewest ticks after a reset at which speed can be MAX_SPEED
TicksToMaxSpeed == (MAX_SPEED - INITIAL_SPEED) \div SPEED_STEP

ThrottleKeySets == {{}, {"w"}, {"s"}, {"w", "s"}}

\* Playing right after restartGame(), or in a flight that has reached MAX_SPEED
ThrottleInit ==
    /\ gameStarted = TRUE
    /\ gameOver = FALSE
    /\ currentLevel = 1
    /\ levelDistance = LevelDistances[1]
    /\ unlocked = InitialUnlocked
    /\ \/ speed = DOUBLE_INITIAL_SPEED /\ ticks = 0 /\ lastOp = "restartGame"
       \/ speed = DOUBLE_MAX_SPEED /\ ticks = TicksToMaxSpeed /\ lastOp = "throttle"
    /\ score = 0
    /\ distance = 0
    /\ planeRotation = [x |-> 0, y |-> 0, z |-> 0]
    /\ planePosition = [x |-> 0, y |-> 500, z |-> 0]
    /\ cameraAngle = 0
    /\ firstPersonView = FALSE
    /\ keys \in ThrottleKeySets
    /\ pillars = <<>>
    /\ barriers = createBarriers
    /\ goldenRing = createGoldenRing(LevelDistances[1])
    /\ planeLoaded = TRUE
    /\ planeVisible = TRUE
    /\ planeLoadPending = FALSE
    /\ towerLoads = 0
    /\ restartBtnText = "Restart Game"
    /\ startScreenHidden = TRUE
    /\ gameOverHidden = TRUE
    /\ calls = <<>>
    /\ keyEvents = 0
    /\ advanceTimers = 0

\* the speed controls of one tick
throttleTick ==
    /\ ~Paused
    /\ \/ ticks < MaxThrottleTicks
       \/ ticks >= TicksToMaxSpeed /\ ticks < TicksToMaxSpeed + MaxTicks
    /\ speed' = ThrottleDouble(speed, keys)
    /\ ticks' = ticks + 1
    /\ lastOp' = "throttle"
    /\ UNCHANGED <<gameStarted, gameOver, currentLevel, levelDistance, unlocked,
                   score, distance, planeRotation, planePosition, cameraAngle,
                   firstPersonView, keys, pillars, barriers, goldenRing, planeLoaded,
                   planeVisible, planeLoadPending, towerLoads, restartBtnText,
                   startScreenHidden, gameOverHidden, calls, keyEvents, advanceTimers>>

ThrottleNext == throttleTick

ThrottleSpec == ThrottleInit /\ [][ThrottleNext]_vars


(***************************************************************************)
(* One flight followed to its end.  animate() requests the next frame      *)
(* before it calls update(), so a tick follows every tick, a tick that     *)
(* throws included: the tick is weakly fair.  The flights start near the   *)
(* goal ring of level 1, or on the start line with the plane model missing;*)
(* ticks counts the ticks modulo MaxTicks.                                 *)
(***************************************************************************)
FlightKeys == {"w", "s"}

FlightEndScenarios ==
    { Scenario(1, 5000, 320000, <<-400, 401, 3999>>, x, 500, zs[1], zs[2], 0, 0, ks) :
        x \in {0, 810},
        zs \in {<<294400, 500>>, <<294795, 10>>, <<295700, 10>>},
        ks \in {{}, {"w"}, {"s"}} }

\* startGame() before the plane model arrived, then the tower model loaded and
\* the load of the plane model failed: plane stays undefined
StalledFlightInit ==
    /\ gameStarted = TRUE
    /\ gameOver = FALSE
    /\ currentLevel = 1
    /\ levelDistance = LevelDistances[1]
    /\ unlocked = InitialUnlocked
    /\ speed = INITIAL_SPEED
    /\ score = 0
    /\ distance = 0
    /\ planeRotation = [x |-> 0, y |-> 0, z |-> 0]
    /\ planePosition = [x |-> 0, y |-> 500, z |-> 0]
    /\ cameraAngle = 0
    /\ firstPersonView = FALSE
    /\ keys = {}
    /\ pillars \in {generatePillars(<<>>, LevelDistances[1], pat) : pat \in RowPatterns}
    /\ barriers = createBarriers
    /\ goldenRing = createGoldenRing(LevelDistances[1])
    /\ planeLoaded = FALSE
    /\ planeVisible = TRUE
    /\ planeLoadPending = FALSE
    /\ towerLoads = 0
    /\ restartBtnText = "Restart Game"
    /\ startScreenHidden = TRUE
    /\ gameOverHidden = TRUE
    /\ lastOp = "planeLoadError"
    /\ calls = <<>>
    /\ ticks = 0
    /\ keyEvents = 0
    /\ advanceTimers = 0

FlightEndInit ==
    \/ \E sc \in FlightEndScenarios : FlightInit(sc)
    \/ StalledFlightInit

flightTick ==
    /\ tick((ticks % MaxTicks) + 1)

FlightKeyDown == \E k \in FlightKeys : onKeyDown(k)
FlightKeyUp == \E k \in FlightKeys : onKeyUp(k)

FlightNext ==
    \/ flightTick
    \/ FlightKeyDown
    \/ FlightKeyUp

FlightSpec == FlightEndInit /\ [][FlightNext]_vars /\ WF_vars(flightTick)


\* ===================================================================== claims
Abs(n) == IF n < 0 THEN -n ELSE n

\* an update() that started in Playing and ran to its last line
CompletedTick == lastOp' = "update" /\ Playing /\ planeLoaded

HasCall(cs, c) == \E i \in 1..Len(cs) : cs[i] = c

\* the plane's box (x +- 3, y +- 0.5, z +- 1) at (x, y, z) against pillar p's box
\* (x +- 1, y 0..20, z +- 1), as the claims state it
BoxesOverlap(p, x, y, z) ==
    /\ Abs(x - p.xPosition) <= 400
    /\ y + 50 >= 0 /\ y - 50 <= 2000
    /\ Abs(z - p.zPosition) <= 200

\* squared planar distance of the plane from the centre of the ring
PlanarDist2(pos) ==
    (pos.x - goldenRing[1].x) * (pos.x - goldenRing[1].x)
    + (pos.y - goldenRing[1].y) * (pos.y - goldenRing[1].y)

RingZ == goldenRing[1].zPosition

\* C1: update() run while the state is Menu, GameOver or LevelComplete leaves
\* speed, the plane's position and rotation, distance, score, the camera angle,
\* the pillars, the unlock flags and the top-level state as they were, whatever
\* keys are held.
C1_NoOpOutsidePlaying ==
    [][(lastOp' = "update" /\ ~Playing) => UNCHANGED simVars]_vars

C1_Witness ==
    /\ lastOp = "update" /\ calls = <<>>
    /\ gameOver /\ ~gameStarted
    /\ "w" \in keys

\* C2 (as claimed): a Playing tick in which the plane's box overlaps a live
\* pillar's box on all three axes ends in GameOver, not LevelComplete, and
\* unlocks no level.
C2_CollisionEndsInGameOver ==
    [][(CompletedTick
        /\ \E i \in 1..Len(pillars) :
              BoxesOverlap(pillars[i], planePosition'.x, planePosition'.y, planePosition'.z))
       => (GameOverState' /\ unlocked' = unlocked)]_vars

\* C3 (as claimed): a Playing tick that takes the plane from below ringZ - 2
\* into or beyond the ring's plane, inside the inner radius and hitting no
\* pillar, ends in LevelComplete.
C3_PassThroughCompletes ==
    [][(CompletedTick /\ goldenRing # <<>>
        /\ planePosition.z < RingZ - 200
        /\ planePosition'.z >= RingZ - 200
        /\ PlanarDist2(planePosition) <= 600 * 600
        /\ PlanarDist2(planePosition') <= 600 * 600
        /\ ~HasCall(calls', "endGame:pillar"))
       => LevelComplete']_vars

\* C4: in a Playing tick that ends with plane.z in [ringZ - 2, ringZ + 2], with
\* d the planar distance from the ring centre: d <= 6 ends in LevelComplete,
\* 6 < d < 8 ends in GameOver, and d >= 8 makes the ring check call neither
\* (the tick stays Playing unless a pillar or the ground ended it); with
\* plane.z outside that window the ring check calls neither, whatever d is.
C4_RingDecisionTable ==
    [][(CompletedTick /\ goldenRing # <<>>)
       => LET z == planePosition'.z
              d2 == PlanarDist2(planePosition')
              inWindow == z >= RingZ - 200 /\ z <= RingZ + 200
              ringCalled == HasCall(calls', "completeLevel") \/ HasCall(calls', "endGame:outerRing")
              otherCalled == HasCall(calls', "endGame:pillar") \/ HasCall(calls', "endGame:ground")
          IN  /\ (inWindow /\ d2 <= 600 * 600) => LevelComplete'
              /\ (inWindow /\ d2 > 600 * 600 /\ d2 < 800 * 800) => GameOverState'
              /\ (inWindow /\ d2 >= 800 * 800) => (~ringCalled /\ (~otherCalled => Playing'))
              /\ ~inWindow => ~ringCalled]_vars

C4_Witness ==
    /\ lastOp = "update" /\ ticks > 0 /\ Playing
    /\ goldenRing # <<>>
    /\ planePosition.z >= RingZ - 200 /\ planePosition.z <= RingZ + 200
    /\ PlanarDist2(planePosition) >= 800 * 800

\* C5: a Playing tick that ends with plane.z beyond ringZ + 10 ends in GameOver,
\* and the flew-past check ends no tick whose plane.z is at most ringZ + 10.
C5_FlewPast ==
    [][(CompletedTick /\ goldenRing # <<>>)
       => /\ planePosition'.z > RingZ + 1000 => GameOverState'
          /\ planePosition'.z <= RingZ + 1000 =>
                /\ ~HasCall(calls', "endGame:flewPast")
                /\ (planePosition'.z > RingZ + 200 /\ ~HasCall(calls', "endGame:pillar"))
                   => Playing']_vars

C5_Witness ==
    /\ lastOp = "update" /\ ticks > 0
    /\ GameOverState
    /\ calls = <<"endGame:flewPast">>
    /\ planePosition.z > RingZ + 1000

\* C6: speed stays within [MIN_SPEED, MAX_SPEED] = [0.1, 5] in every state.
C6_SpeedInRange == speed >= 10 /\ speed <= 500

C6_Witness ==
    /\ lastOp = "update" /\ ticks > 0
    /\ {"w", "s"} \subseteq keys
    /\ speed = 10

\* C7: roll (rotation z) and pitch (rotation x) stay within [-0.3, 0.3] in
\* every state.
C7_RotationInRange ==
    /\ planeRotation.z >= -300000000 /\ planeRotation.z <= 300000000
    /\ planeRotation.x >= -300000000 /\ planeRotation.x <= 300000000

C7_Witness ==
    /\ lastOp = "update" /\ ticks > 0
    /\ "d" \in keys /\ "arrowup" \in keys
    /\ planeRotation.z = 300000000 /\ planeRotation.x = 300000000

C9_ScoreOncePerPillar ==
    [][/\ CompletedTick =>
            /\ score' - score =
                 10 * Cardinality({i \in 1..Len(pillars) :
                        ~pillars[i].passed /\ pillars[i].zPosition < planePosition'.z})
            /\ \A j \in 1..Len(pillars') :
                 pillars'[j].passed <=> pillars'[j].zPosition < planePosition'.z
       /\ lastOp' \notin {"restartGame", "returnToMainMenu"} => score' >= score]_vars

C9_Witness ==
    /\ lastOp = "update" /\ ticks > 1 /\ Playing
    /\ score > 0
    /\ \E j \in 1..Len(pillars) :
          pillars[j].passed /\ pillars[j].zPosition >= planePosition.z - 500

\* C10 (as claimed): while the game stays Playing a pillar at zPosition P stays
\* in the collection as long as plane.z <= P + 100, and is gone at the end of
\* the first tick with plane.z > P + 100.
C10_EvictedOnlyWhenBehind ==
    [][(Playing /\ Playing')
       => /\ \A i \in 1..Len(pillars) :
                planePosition'.z <= pillars[i].zPosition + 10000
                => \E j \in 1..Len(pillars') :
                      /\ pillars'[j].xPosition = pillars[i].xPosition
                      /\ pillars'[j].zPosition = pillars[i].zPosition
          /\ lastOp' = "update" =>
                \A j \in 1..Len(pillars') :
                    planePosition'.z <= pillars'[j].zPosition + 10000]_vars

Frontier(ps) ==
    LET zs == {0} \cup {ps[i].zPosition : i \in 1..Len(ps)}
    IN  CHOOSE m \in zs : \A v \in zs : v <= m

C13_InitialPopulation ==
    [][lastOp' \in {"towerLoaded", "towerLoadError"}
       => LET L == levelDistance
              kept == IF lastOp' = "towerLoaded" THEN 0 ELSE Len(pillars)
              created == (kept + 1)..Len(pillars')
              rows == {r \in {6000 + 5000 * k : k \in 0..(L \div 5000)} : r < L - 10000}
              perRow == [r \in rows |-> Cardinality({j \in created : pillars'[j].zPosition = r})]
          IN  /\ \A j \in created :
                    /\ pillars'[j].zPosition \in rows
                    /\ pillars'[j].xPosition >= -4000 /\ pillars'[j].xPosition <= 4000
                    /\ ~pillars'[j].passed
              /\ \A r \in rows : perRow[r] >= 1 /\ perRow[r] <= 3
              /\ SubSeq(pillars', 1, kept) = SubSeq(pillars, 1, kept)]_vars

\* the tower load of level 1 has just installed the rows 60 .. 2860
C13_Witness ==
    /\ lastOp = "towerLoaded"
    /\ levelDistance = 300000
    /\ pillars # <<>>
    /\ pillars[1].zPosition = 6000
    /\ pillars[Len(pillars)].zPosition = 286000

\* C14: selectLevel(n) for a level whose unlocked flag is false alerts and
\* changes nothing; for an unlocked level it sets currentLevel = n and
\* levelDistance = LEVELS[n - 1].distance (3000 for level 1) and takes the game
\* from Menu to Playing.
C14_SelectLevel ==
    [][\A n \in 1..5 :
          lastOp' = SelectLevelOp[n]
          => IF ~unlocked[n]
             THEN UNCHANGED simVars /\ calls' = <<"alert">>
             ELSE /\ InMenu /\ Playing'
                  /\ currentLevel' = n
                  /\ levelDistance' = LevelDistances[n]
                  /\ (n = 1 => levelDistance' = 300000)
                  /\ unlocked' = unlocked
                  /\ calls' = <<>>]_vars

\* the button of the locked level 2 has just been clicked
C14_Witness ==
    /\ lastOp = "selectLevel:2"
    /\ calls = <<"alert">>
    /\ ~unlocked[2]
    /\ InMenu

\* C15: no step takes a level's unlocked flag from true to false; a flag goes
\* from false to true only for level currentLevel + 1 in a tick that ends in
\* LevelComplete; restartGame, returnToMainMenu and a tick that ends in
\* GameOver change no flag.
C15_UnlockOneWay ==
    [][/\ \A n \in 1..5 : unlocked[n] => unlocked'[n]
       /\ \A n \in 1..5 :
             (~unlocked[n] /\ unlocked'[n])
             => /\ lastOp' = "update" /\ Playing
                /\ LevelComplete' /\ HasCall(calls', "completeLevel")
                /\ n = currentLevel + 1
       /\ (lastOp' \in {"restartGame", "returnToMainMenu"} \/ (Playing /\ GameOverState'))
             => unlocked' = unlocked]_vars

\* level 2 of a game played on level 1 has just been unlocked
C15_Witness ==
    /\ lastOp = "update" /\ ticks > 0
    /\ LevelComplete
    /\ currentLevel = 1
    /\ unlocked = <<TRUE, TRUE, FALSE, FALSE, FALSE>>

\* C16 (as claimed): from a state of LevelComplete no step other than
\* restartGame (restart or continue) and returnToMainMenu changes the top-level
\* state, currentLevel or levelDistance.
C16_NoAutoAdvance ==
    [][(LevelComplete /\ lastOp' \notin {"restartGame", "returnToMainMenu"})
       => (LevelComplete' /\ currentLevel' = currentLevel /\ levelDistance' = levelDistance)]_vars

\* C17 (as claimed): currentLevel increases only in restartGame run from
\* LevelComplete with currentLevel < 5, and then by exactly 1.
C17_OnlyContinueRaisesLevel ==
    [][currentLevel' > currentLevel
       => /\ lastOp' = "restartGame"
          /\ LevelComplete /\ currentLevel < 5
          /\ currentLevel' = currentLevel + 1]_vars

\* C17 (amended): restartGame run from LevelComplete with currentLevel < 5
\* raises currentLevel by exactly 1 and sets levelDistance to the new level's
\* distance; restartGame run in any other state, and so right after a tick
\* that ended in GameOver, leaves both unchanged; the only other step that changes either of them is selectLevel(n) of an
\* unlocked level, which sets them to n and to level n's distance.
C17_ContinueAdvancesOne ==
    [][/\ lastOp' = "restartGame"
          => IF LevelComplete /\ currentLevel < 5
             THEN /\ currentLevel' = currentLevel + 1
                  /\ levelDistance' = LevelDistances[currentLevel + 1]
             ELSE currentLevel' = currentLevel /\ levelDistance' = levelDistance
       /\ (/\ lastOp' = "restartGame" /\ lastOp = "update"
           /\ calls # <<>> /\ ~HasCall(calls, "completeLevel"))
          => currentLevel' = currentLevel /\ levelDistance' = levelDistance
       /\ (currentLevel' # currentLevel \/ levelDistance' # levelDistance)
          => \/ lastOp' = "restartGame"
             \/ \E n \in 1..5 :
                   /\ lastOp' = SelectLevelOp[n] /\ unlocked[n]
                   /\ currentLevel' = n /\ levelDistance' = LevelDistances[n]]_vars

\* Continue has just taken the game from a completed level 1 to level 2; the
\* ring of level 1 is still in place until the tower load completes
C17_Witness ==
    /\ lastOp = "restartGame"
    /\ Playing
    /\ currentLevel = 2 /\ levelDistance = 600000
    /\ goldenRing # <<>> /\ goldenRing[1].zPosition = 295000

\* C18: right after restartGame (restart or continue) the state is Playing
\* with speed 0.5, score 0, distance 0, the plane at (0, 5, 0) with roll and
\* pitch 0, camera angle 0, third-person view, the plane visible and no
\* pillars, and a tower load has been started; when that load completes it
\* installs the rows of the current level, unpassed, and the ring at
\* levelDistance - 50.
C18_RestartFromScratch ==
    [][/\ lastOp' = "restartGame"
          => /\ Playing'
             /\ speed' = 50 /\ score' = 0 /\ distance' = 0
             /\ planePosition' = [x |-> 0, y |-> 500, z |-> 0]
             /\ planeRotation'.z = 0 /\ planeRotation'.x = 0
             /\ cameraAngle' = 0
             /\ ~firstPersonView'
             /\ planeVisible'
             /\ pillars' = <<>>
             /\ towerLoads' = towerLoads + 1
             /\ gameOverHidden'
       /\ lastOp' = "towerLoaded"
          => /\ goldenRing' = <<[x |-> 0, y |-> 800, zPosition |-> levelDistance' - 5000]>>
             /\ pillars' # <<>>
             /\ \A j \in 1..Len(pillars') :
                   /\ ~pillars'[j].passed
                   /\ pillars'[j].zPosition >= 6000
                   /\ pillars'[j].zPosition < levelDistance' - 10000
                   /\ pillars'[j].zPosition % 5000 = 1000]_vars

\* a game that ended at speed 5 has just been restarted
C18_Witness ==
    /\ lastOp = "restartGame"
    /\ Playing
    /\ speed = 50 /\ score = 0
    /\ pillars = <<>>
    /\ towerLoads = 1
    /\ ticks > 0

\* C19: right after returnToMainMenu the state is Menu (gameStarted and
\* gameOver both false) with speed 0.5, score 0, distance 0, the plane at
\* (0, 5, 0) with rotation 0, camera angle 0, third-person view and no
\* pillars; the unlock flags are as before.
C19_MenuIsFullReset ==
    [][lastOp' = "returnToMainMenu"
       => /\ ~gameStarted' /\ ~gameOver'
          /\ speed' = 50 /\ score' = 0 /\ distance' = 0
          /\ planePosition' = [x |-> 0, y |-> 500, z |-> 0]
          /\ planeRotation' = [x |-> 0, y |-> 0, z |-> 0]
          /\ cameraAngle' = 0
          /\ ~firstPersonView'
          /\ pillars' = <<>>
          /\ unlocked' = unlocked
          /\ ~startScreenHidden' /\ gameOverHidden']_vars

\* back in the menu after level 1 was completed, level 2 still unlocked
C19_Witness ==
    /\ lastOp = "returnToMainMenu"
    /\ InMenu
    /\ ticks > 0
    /\ score = 0 /\ pillars = <<>>
    /\ unlocked = <<TRUE, TRUE, FALSE, FALSE, FALSE>>
    /\ restartBtnText = "Continue"

\* C20 (as claimed): no tick runs in Playing while the load of the plane model
\* or of the tower model is pending, and no callback of a tower load runs while
\* the game is Playing.
C20_LoadsCompleteBeforePlay ==
    [][/\ (lastOp' = "update" /\ Playing) => (towerLoads = 0 /\ ~planeLoadPending)
       /\ lastOp' \in {"towerLoaded", "towerLoadError"} => ~Playing]_vars

\* the simulation and session variables other than the view toggle
nonViewVars ==
    <<gameStarted, gameOver, currentLevel, levelDistance, unlocked, speed, score, distance,
      planeRotation, planePosition, cameraAngle, pillars, barriers, goldenRing, planeLoaded,
      planeLoadPending, towerLoads, restartBtnText, startScreenHidden, gameOverHidden>>

\* C21 (as claimed): a key-down or key-up event changes only the held-key map
\* and leaves every simulation and session variable, the first-person flag
\* among them, unchanged.
C21_KeyEventsTouchOnlyKeys ==
    [][lastOp' \in {"onKeyDown", "onKeyUp"} => UNCHANGED simVars]_vars

\* C21 (amended): a key-up event changes only the held-key map; a key-down
\* event changes only the held-key map, except that key-down of the toggle key
\* c with the plane model loaded also flips the first-person flag and sets the
\* plane's visibility to its negation; no key event changes plane pose, speed,
\* score, distance, camera angle, top-level state or obstacles.
C21_KeyEventsTouchOnlyKeysAndView ==
    [][/\ lastOp' = "onKeyUp"
          => /\ UNCHANGED simVars
             /\ keys' \subseteq keys /\ Cardinality(keys \ keys') = 1
       /\ lastOp' = "onKeyDown"
          => /\ UNCHANGED nonViewVars
             /\ keys \subseteq keys' /\ Cardinality(keys' \ keys) <= 1
             /\ (keys' \ keys = {"c"} /\ planeLoaded)
                => firstPersonView' = ~firstPersonView /\ planeVisible' = ~firstPersonView'
             /\ ("c" \notin keys' \/ ~planeLoaded)
                => UNCHANGED <<firstPersonView, planeVisible>>]_vars

\* the toggle key has just gone down during play: the view changed, the
\* flight did not
C21_Witness ==
    /\ lastOp = "onKeyDown"
    /\ Playing /\ planeLoaded /\ ticks > 0
    /\ keys = {"c"}
    /\ firstPersonView /\ ~planeVisible
    /\ speed = 500 /\ planePosition.z > 0

\* C22 (as claimed): every step (level select, continue, restart, start, tick,
\* callback) that leaves the game Playing leaves exactly one goal ring, with
\* zPosition = levelDistance - 50.
C22_RingMatchesLevel ==
    [][Playing' => (Len(goldenRing') = 1 /\ goldenRing'[1].zPosition = levelDistance' - 5000)]_vars

\* C23 (as claimed): every tick run in Playing runs all of its steps, and no
\* Playing tick and no restart runs while the plane model is unloaded.
C23_NeverAborts ==
    [][/\ (lastOp' = "update" /\ Playing) => (planeLoaded /\ ~HasCall(calls', "throw"))
       /\ lastOp' = "restartGame" => (planeLoaded /\ ~HasCall(calls', "throw"))]_vars

\* the plane state a tick in Playing leaves, from the plane state before it,
\* the held keys and whether the plane model is loaded; no obstacle enters
KinematicStep(sp, pos, rot, cam, ks, loaded) ==
    LET sp1 == IF "w" \in ks THEN (IF sp + 1 < 500 THEN sp + 1 ELSE 500) ELSE sp
        sp2 == IF "s" \in ks THEN (IF sp1 - 1 > 10 THEN sp1 - 1 ELSE 10) ELSE sp1
        x1 == IF "d" \in ks THEN pos.x - 30 ELSE IF "a" \in ks THEN pos.x + 30 ELSE pos.x
        x2 == IF ~loaded THEN x1
              ELSE IF x1 < -3900 THEN -3900 ELSE IF x1 > 3900 THEN 3900 ELSE x1
        roll == IF "d" \in ks THEN (IF rot.z + 20000000 < 300000000 THEN rot.z + 20000000 ELSE 300000000)
                ELSE IF "a" \in ks THEN (IF rot.z - 20000000 > -300000000 THEN rot.z - 20000000 ELSE -300000000)
                ELSE (rot.z \div 10) * 9
        y1 == IF "arrowup" \in ks THEN (IF pos.y - 10 > 100 THEN pos.y - 10 ELSE 100)
              ELSE IF "arrowdown" \in ks THEN (IF pos.y + 10 < 1500 THEN pos.y + 10 ELSE 1500)
              ELSE pos.y
        pitch == IF "arrowup" \in ks THEN (IF rot.x + 20000000 < 300000000 THEN rot.x + 20000000 ELSE 300000000)
                 ELSE IF "arrowdown" \in ks THEN (IF rot.x - 20000000 > -300000000 THEN rot.x - 20000000 ELSE -300000000)
                 ELSE (rot.x \div 10) * 9
        cam1 == IF "arrowright" \in ks THEN cam + 2 ELSE IF "arrowleft" \in ks THEN cam - 2 ELSE cam
        z1 == IF loaded THEN pos.z + sp2 ELSE pos.z
    IN  [speed |-> sp2, position |-> [x |-> x2, y |-> y1, z |-> z1],
         rotation |-> [x |-> pitch, y |-> rot.y, z |-> roll], camera |-> cam1]

\* C24: the speed, plane position, roll, pitch and camera angle after a tick
\* run in Playing are a function of their values before the tick and of the
\* held keys alone; pillars, barriers and ring do not enter, so runs that agree
\* on plane state and keys agree on them after every tick, whatever obstacles
\* each has.
C24_KinematicsIgnoreObstacles ==
    [][(lastOp' = "update" /\ Playing)
       => LET k == KinematicStep(speed, planePosition, planeRotation, cameraAngle, keys,
                                 planeLoaded)
          IN  /\ speed' = k.speed
              /\ planePosition' = k.position
              /\ planeRotation' = k.rotation
              /\ cameraAngle' = k.camera]_vars

\* a tick has flown the plane on between two rows while steering against the
\* left wall, with the rows of the second placement around it
C24_Witness ==
    /\ lastOp = "update" /\ ticks > 0 /\ Playing
    /\ "a" \in keys
    /\ planePosition = [x |-> 3900, y |-> 500, z |-> 120150]
    /\ \E j \in 1..Len(pillars) : pillars[j].zPosition = 120000 /\ pillars[j].xPosition = 1500

\* the doubles 1.0 and 1.0000000000000004 = 1 + 2^-51
DOUBLE_ONE == <<131072, 0, 0>>
DOUBLE_ONE_PLUS_TWO_ULP == <<131072, 0, 256>>

\* what the claim says of one tick, in the program's arithmetic
ThrottleRule ==
    /\ ("w" \in keys /\ "s" \notin keys)
       => speed' = MathMin(DoubleAdd(speed, DOUBLE_SPEED_STEP), DOUBLE_MAX_SPEED)
    /\ ("s" \in keys /\ "w" \notin keys)
       => speed' = MathMax(DoubleSubtract(speed, DOUBLE_SPEED_STEP), DOUBLE_MIN_SPEED)
    /\ ("w" \notin keys /\ "s" \notin keys) => speed' = speed

\* C25 (as claimed): a tick with only the increase key held makes speed
\* min(speed + 0.01, 5), with only the decrease key held max(speed - 0.01, 0.1),
\* with neither leaves it; 50 ticks from a reset with only the increase key
\* held give speed exactly 1.0.
C25_FiftyTicksGiveExactlyOne ==
    [][lastOp' = "throttle"
       => /\ ThrottleRule
          /\ (ticks' = 50 /\ keys = {"w"}) => speed' = DOUBLE_ONE]_vars

\* C25 (amended): the per-tick rule as claimed, the sums being JavaScript
\* number sums; 50 ticks from a reset with only the increase key held give
\* speed 1.0000000000000004 (1 + 2^-51), which is 1.0 only up to rounding.
C25_FiftyTicksGiveOneUpToRounding ==
    [][lastOp' = "throttle"
       => /\ ThrottleRule
          /\ (ticks' = 50 /\ keys = {"w"}) => speed' = DOUBLE_ONE_PLUS_TWO_ULP
          /\ ~DoubleLess(speed', DOUBLE_MIN_SPEED) /\ ~DoubleLess(DOUBLE_MAX_SPEED, speed')]_vars

\* the 50th tick after a reset with the increase key held throughout
C25_Witness ==
    /\ lastOp = "throttle"
    /\ ticks = 50
    /\ keys = {"w"}
    /\ speed = DOUBLE_ONE_PLUS_TWO_ULP

\* C26 (as claimed): every tick run in Playing adds to plane.z and to distance
\* the speed that tick's throttle step produced, at least 0.1, whatever keys
\* are held; distance = planePosition.z after every step, and neither
\* decreases except in restartGame and returnToMainMenu.
C26_ForwardMotion ==
    [][/\ (lastOp' = "update" /\ Playing)
          => /\ planePosition'.z - planePosition.z = speed'
             /\ distance' - distance = speed'
             /\ speed' >= 10
       /\ distance' = planePosition'.z
       /\ lastOp' \notin {"restartGame", "returnToMainMenu"}
          => (planePosition'.z >= planePosition.z /\ distance' >= distance)]_vars

\* C27 (as claimed): the first-person flag changes only when the toggle key
\* goes from not held to held (restartGame and returnToMainMenu reset it to
\* third person), so a key-down that arrives while the key is held does not
\* flip it; and while the plane model is loaded plane.visible = ~firstPersonView.
C27_ToggleOnKeyEdge ==
    [][/\ firstPersonView' # firstPersonView
          => \/ lastOp' = "onKeyDown" /\ "c" \notin keys /\ "c" \in keys'
             \/ lastOp' \in {"restartGame", "returnToMainMenu"} /\ ~firstPersonView'
       /\ planeLoaded' => (planeVisible' = ~firstPersonView')]_vars

\* C28 (as claimed): at the end of every tick run in Playing every live pillar
\* has plane.z - 100 <= zPosition < max(levelDistance - 100, plane.z + 500),
\* and the live pillars number at most 3 for each 50 m of that span.
C28_BoundedObstacleWindow ==
    [][(lastOp' = "update" /\ Playing)
       => LET lo == planePosition'.z - 10000
              hi == IF levelDistance' - 10000 > planePosition'.z + 50000
                    THEN levelDistance' - 10000
                    ELSE planePosition'.z + 50000
          IN  /\ \A j \in 1..Len(pillars') :
                    pillars'[j].zPosition >= lo /\ pillars'[j].zPosition < hi
              /\ Len(pillars') <= 3 * ((hi - lo) \div 5000 + 1)]_vars

\* the pillars of ps2 that the step from ps1 created: all of them after a
\* successful tower load, the appended ones after a failed one, and otherwise
\* those at a place where ps1 had none
CreatedBy(op, ps1, ps2) ==
    IF op = "towerLoaded" THEN 1..Len(ps2)
    ELSE IF op = "towerLoadError" THEN (Len(ps1) + 1)..Len(ps2)
    ELSE {j \in 1..Len(ps2) :
            ~\E i \in 1..Len(ps1) : /\ ps1[i].xPosition = ps2[j].xPosition
                                    /\ ps1[i].zPosition = ps2[j].zPosition}

\* C29 (as claimed): every pillar a step creates, by the population of a tower
\* load callback or by the streaming of a tick, has zPosition greater than
\* plane.z at that moment.
C29_CreatedAheadOfPlane ==
    [][\A j \in CreatedBy(lastOp', pillars, pillars') :
          pillars'[j].zPosition > planePosition'.z]_vars

\* C30 (as claimed): in every state no live pillar has zPosition < 60, whichever
\* way play was started.
C30_SafeZone ==
    \A j \in 1..Len(pillars) : pillars[j].zPosition >= 6000

\* C31 (as claimed): no live pillar has zPosition >= levelDistance - 100: no
\* step, the streaming of a tick included, creates a pillar at or beyond
\* levelDistance - 100, short of the goal ring at levelDistance - 50.
C31_GoalApproachClear ==
    [][\A j \in CreatedBy(lastOp', pillars, pillars') :
          pillars'[j].zPosition < levelDistance' - 10000]_vars


\* C32 (as claimed): no tunnelling: when a tick of play takes plane.z from below
\* P - 2 to above P + 2 for a live pillar at zPosition P, with
\* |plane.x - pillar.x| <= 4 before and after the tick, the state after the tick
\* is GameOver.
C32_NoTunnelling ==
    [][(Playing /\ lastOp' = "update") =>
          \A j \in 1..Len(pillars) :
              (/\ planePosition.z < pillars[j].zPosition - 200
               /\ planePosition'.z > pillars[j].zPosition + 200
               /\ Abs(planePosition.x - pillars[j].xPosition) <= 400
               /\ Abs(planePosition'.x - pillars[j].xPosition) <= 400)
              => GameOverState']_vars


\* C33 (as claimed): planePosition.y stays within [1.0, 15.0] in every reachable
\* state; the ground-collision condition y < 0.5 is never satisfied, so no
\* endGame call is ever made for it; and the plane's box always overlaps the
\* y extent 0..20 of the obstacles.
C33_AltitudeEnvelope ==
    /\ planePosition.y >= 100
    /\ planePosition.y <= 1500
    /\ ~(planePosition.y < 50)
    /\ ~HasCall(calls, "endGame:ground")
    /\ planePosition.y + 50 >= 0
    /\ planePosition.y - 50 <= 2000

\* a tick with pitch-up held has left the plane on the floor of the envelope
C33_Witness ==
    /\ lastOp = "update"
    /\ ticks >= 1
    /\ "arrowup" \in keys
    /\ planePosition.y = 100


\* C34 (as claimed): with a goal ring in place and ticks occurring, every
\* state of play is followed by a state of GameOver or LevelComplete.
C34_EveryFlightEnds ==
    (Playing /\ goldenRing # <<>>) ~> (GameOverState \/ LevelComplete)


\* C35 (as claimed): with the UI handlers run only while their controls are
\* shown, gameStarted and gameOver are never both true, and every endGame() and
\* completeLevel() call is made while the state is Playing: a tick makes such
\* a call only when it began in Playing, and at most one, since the first call
\* of a tick leaves the state Ended.
C35_WellFormedStates ==
    [][/\ ~(gameStarted /\ gameOver)
       /\ ~(gameStarted' /\ gameOver')
       /\ \A i \in 1..Len(calls') :
             calls'[i] \in {"endGame:pillar", "endGame:ground", "endGame:outerRing",
                            "endGame:flewPast", "completeLevel"}
             => (Playing /\ i = 1)]_vars


\* C36: in every state currentLevel is one of 1..5 and levelDistance is the
\* distance of that level (3000, 6000, 9000, 12000, 15000); Continue pressed
\* on the completion screen of level 5 starts play on level 5 again.
C36_LevelBookkeeping ==
    [][/\ currentLevel \in 1..5
       /\ levelDistance = <<300000, 600000, 900000, 1200000, 1500000>>[currentLevel]
       /\ currentLevel' \in 1..5
       /\ levelDistance' = <<300000, 600000, 900000, 1200000, 1500000>>[currentLevel']
       /\ (LevelComplete /\ currentLevel = 5 /\ lastOp' = "restartGame")
          => (currentLevel' = 5 /\ Playing')]_vars

\* play restarted on level 5 after a flight of level 5 (the level 5 flights
\* followed here end by completing the level)
C36_Witness ==
    /\ lastOp = "restartGame"
    /\ ticks >= 1
    /\ Playing
    /\ currentLevel = 5
    /\ levelDistance = 1500000


\* C37: with LOCK_LEVEL on, the unlocked levels are the levels 1..k for some k
\* in 1..5, and in every state of play the current level is unlocked.
C37_LockedLevelsNeverPlayed ==
    LOCK_LEVEL =>
        /\ \E k \in 1..5 : \A n \in 1..5 : unlocked[n] <=> (n <= k)
        /\ Playing => unlocked[currentLevel]

\* Continue has started play on level 2, the last level unlocked
C37_Witness ==
    /\ LOCK_LEVEL
    /\ lastOp = "restartGame"
    /\ Playing
    /\ currentLevel = 2
    /\ unlocked[2]
    /\ ~unlocked[3]


\* C38 (as claimed), src/game.js: when the timer armed by completeLevel() fires
\* after the player has left the completion screen by restarting or returning
\* to the menu, the firing leaves currentLevel, levelDistance, score, distance,
\* the plane's position and the top-level state as they were.
C38_StaleTimerDoesNothing ==
    [][(lastOp' = "autoAdvance" /\ ~LevelComplete)
       => UNCHANGED <<currentLevel, levelDistance, score, distance, planePosition,
                      gameStarted, gameOver>>]_vars

====
